---- MODULE Spec2Model ----
(***************************************************************************)
(* State-machine model of the image optimizer plugin:                      *)
(*   - Cache (src/cache.js) over a Keyv store with a ttl,                   *)
(*   - ImageProcessor.process (src/processor.js) as a pure function of the  *)
(*     resolved file,                                                       *)
(*   - ImageOptimizerPlugin (plugin.js) with its PQueue, its processed set  *)
(*     and the traversal processContent / #processNode / #processImage.     *)
(*                                                                          *)
(* JavaScript scheduling: code between two awaits is atomic; continuations  *)
(* of settled promises run in FIFO order (variable ready) until none is     *)
(* left; only then does the host run again or an I/O completion fire.       *)
(***************************************************************************)
EXTENDS Integers, Sequences, FiniteSets, TLC

VARIABLES
  clock,        \* Date.now()
  ttl,          \* options.cacheTimeout
  concurrency,  \* options.concurrency
  store,        \* the Map behind Keyv: cache key -> entry or NoEntry
  size,         \* Cache.#size
  processed,    \* ImageOptimizerPlugin.#processed (set of src strings)
  docs,         \* the documents as handed in: doc -> sequence of nodes
  nodes,        \* current attrs of every node: doc -> sequence of attrs
  inv,          \* one record per processContent invocation slot
  running,      \* PQueue: jobs being executed (its pending count)
  queue,        \* PQueue: jobs waiting for a slot, FIFO
  ready,        \* promise continuations ready to run, FIFO
  turn,         \* "host": the host may call in; "micro": continuations drain
  ac,           \* the afterCollect call: none / waiting / ready, then
                \* resolved (at once) or drained (after waiting for idle)
  acOpen,       \* jobs found unfinished when afterCollect resolved
  ops,          \* the calls made on a Cache directly, in the order of issue
  call          \* a synchronous call under study: its input and its outcome

vars == <<clock, ttl, concurrency, store, size, processed, docs, nodes, inv,
          running, queue, ready, turn, ac, acOpen, ops, call>>

(***************************************************************************)
(* Bounds                                                                  *)
(***************************************************************************)
DocLen == 2          \* nodes per document
MaxTime == 2         \* the clock stops here
MaxTtl == 1          \* cacheTimeout values 1..MaxTtl
MaxConcurrency == 2  \* concurrency values 1..MaxConcurrency
MaxOps == 3          \* calls made on a Cache directly
MaxDim == 6          \* source widths and heights 1..MaxDim, targets 1..MaxDim + 1

(***************************************************************************)
(* Values                                                                  *)
(***************************************************************************)
NoCall == [fn |-> "none"]       \* no synchronous call is under study
NoEntry == [none |-> TRUE]      \* store.get(key) === undefined
Null == [null |-> TRUE]         \* Cache.get(key) === null
Failed == [error |-> TRUE]      \* a rejected job

\* src strings, as path segments: "/a", "a", "./a", "/x"
Srcs == { <<"/", "a">>, <<"a">>, <<".", "a">>, <<"/", "x">> }

\* the nodes a document may hold at position k (alt tells the nodes apart)
NodeChoices(k) ==
  { [type |-> "image", attrs |-> [src |-> s, alt |-> k]] : s \in Srcs }
  \cup { [type |-> "image", attrs |-> [alt |-> k]],
         [type |-> "paragraph", attrs |-> [alt |-> k]] }

Computed == {"srcset", "sizes", "width", "height", "originalSrc"}

(***************************************************************************)
(* utils.js                                                                *)
(***************************************************************************)
\* a string is truthy when it is defined and not empty
Truthy(attrs, f) == f \in DOMAIN attrs /\ attrs[f] # <<>>

\* a node test that forgets the type
HasSrc(node) == Truthy(node.attrs, "src")

isImageNode(node) == node.type = "image" /\ Truthy(node.attrs, "src")

\* path.resolve on the segments: "." is dropped
RECURSIVE Normalize(_)
Normalize(segs) ==
  IF segs = <<>> THEN <<>>
  ELSE IF Head(segs) = "." THEN Normalize(Tail(segs))
  ELSE <<Head(segs)>> \o Normalize(Tail(segs))

resolvePublicPath(src, context) ==
  IF Head(src) = "/"
  THEN <<"site", "public">> \o Normalize(Tail(src))
  ELSE Normalize(context.currentDir \o src)

\* the context of the pass over document d
Context(d) == [resourcePath |-> <<"site", "pages">>,
               currentDir |-> <<"site", "pages", ToString(d)>>]

CacheKey(imagePath) == <<"image:">> \o imagePath

(***************************************************************************)
(* The files on disk and processor.js                                      *)
(***************************************************************************)
Basename(path) == path[Len(path)]

\* fileTypeFromFile: the detected extension, "none" for a missing file
FileType(path) ==
  IF Basename(path) # "a" THEN "none"
  ELSE IF path[2] = "public" THEN "jpg" ELSE "png"

\* sharp(path).metadata()
Metadata(path) ==
  IF path[2] = "public" THEN [width |-> 1920, height |-> 1080]
  ELSE [width |-> 800, height |-> 600]

OptSizes == << [width |-> 640, suffix |-> "sm"], [width |-> 1024, suffix |-> "md"] >>
OptFormats == << "webp" >>
OptPublicPath == "/images"

\* a resize that always takes the target width
TargetWidth(a, b) == a

Min(a, b) == IF a < b THEN a ELSE b

\* Math.round of the non-negative quotient n / d
RoundDiv(n, d) == (2 * n + d) \div (2 * d)

createVariant(metadata, name, sz, format) ==
  LET width == Min(sz.width, metadata.width)
      height == RoundDiv(metadata.height * width, metadata.width)
  IN [width |-> width, height |-> height, format |-> format,
      url |-> <<OptPublicPath, name, sz.suffix, format>>]

generateVariants(metadata, imagePath) ==
  [k \in 1..(Len(OptSizes) * Len(OptFormats)) |->
     createVariant(metadata, Basename(imagePath),
                   OptSizes[((k - 1) \div Len(OptFormats)) + 1],
                   OptFormats[((k - 1) % Len(OptFormats)) + 1])]

generateSrcset(variants) ==
  [k \in 1..Len(variants) |-> <<variants[k].url, variants[k].width>>]

generateSizes == <<"(max-width: 640px) 100vw", "(max-width: 1024px) 50vw",
                   "(max-width: 1920px) 33vw", "100vw">>

SupportedTypes == {"jpg", "jpeg", "png", "webp", "avif"}

\* does ImageProcessor.process(imagePath) return (TRUE) or throw (FALSE)
ProcessOk(imagePath) == FileType(imagePath) \in SupportedTypes

process(imagePath) ==
  LET metadata == Metadata(imagePath)
      variants == generateVariants(metadata, imagePath)
  IN [srcset |-> generateSrcset(variants), sizes |-> generateSizes,
      width |-> metadata.width, height |-> metadata.height]

(***************************************************************************)
(* cache.js                                                                *)
(***************************************************************************)
\* Keyv.get: an entry past its own expiry is removed from the Map and
\* reported as undefined; Cache.#size is not told
KeyvExpired(entry, now) == now > entry.expires

KeyvGetData(st, key, now) ==
  IF st[key] = NoEntry \/ KeyvExpired(st[key], now) THEN NoEntry ELSE st[key]

KeyvGetStore(st, key, now) ==
  IF st[key] # NoEntry /\ KeyvExpired(st[key], now)
  THEN [st EXCEPT ![key] = NoEntry] ELSE st

\* a cache that takes every entry for expired
isExpiredAlways(timestamp, now, t) == TRUE

\* Cache.#isExpired
isExpired(timestamp, now, t) == now - timestamp > t

\* a delete that counts down whatever Keyv reports
SizeAfterDeleteAlways(sz, deleted) == sz - 1

\* Cache.delete: `if (deleted) this.#size--`
SizeAfterDelete(sz, deleted) == IF deleted THEN sz - 1 ELSE sz

\* a clear that leaves the Map as it is
ClearNothing(st) == st

\* Keyv.clear on a Map
ClearStore(st) == [k \in DOMAIN st |-> NoEntry]

\* the keys a caller hands to the Cache: strings and null
StrKey(str) == [str |-> str]
NullKey == [null |-> TRUE]
RealKeys == { StrKey("k1") }
HostKeys == RealKeys \cup { StrKey(""), NullKey }

\* Keyv stores under `${namespace}:${key}`; no key is refused
KeyPrefix(key) ==
  <<"keyv", IF "null" \in DOMAIN key THEN "null" ELSE key.str>>

(***************************************************************************)
(* plugin.js: pure parts                                                   *)
(***************************************************************************)
\* { ...a, ...b }
Spread(a, b) ==
  [f \in (DOMAIN a) \cup (DOMAIN b) |-> IF f \in DOMAIN b THEN b[f] ELSE a[f]]

\* a job that leaves width and height out
BuildAttrsPartial(attrs, variants, src) ==
  Spread(attrs, [srcset |-> variants.srcset, sizes |-> variants.sizes,
                 originalSrc |-> src])

\* a job that points src at another file
BuildAttrsRewriteSrc(attrs, variants, src) ==
  Spread(attrs, [src |-> <<"/", "x">>,
                 srcset |-> variants.srcset, sizes |-> variants.sizes,
                 width |-> variants.width, height |-> variants.height,
                 originalSrc |-> src])

\* the attrs object the job builds (lines 127-134)
BuildAttrs(attrs, variants, src) ==
  Spread(attrs, [srcset |-> variants.srcset, sizes |-> variants.sizes,
                 width |-> variants.width, height |-> variants.height,
                 originalSrc |-> src])

\* the cache-hit assignment (lines 110-113); spreading null adds nothing
MergeCached(attrs, cachedData) ==
  IF cachedData = Null THEN attrs ELSE Spread(attrs, cachedData)

\* the early return of #processImage (line 99)
SkipImage(attrs, done) == ~Truthy(attrs, "src") \/ attrs.src \in done

\* a #processImage without its try: the error escapes to the catch of
\* processContent, which records it as it is and ends the pass
RethrowErr(r) ==
  [r EXCEPT !.pc = "idle", !.ran = TRUE, !.idx = 0, !.res = Null,
            !.op = "none", !.src = <<>>, !.path = <<>>,
            !.errs = Append(@, [msg |-> "Unsupported image type", src |-> r.src])]

\* a queue without a limit
CanStartAlways(pending, limit) == TRUE

\* PQueue starts a job while fewer than concurrency jobs are pending
CanStart(pending, limit) == pending < limit

\* a queue that signals idle before it settles the job's promise
SettleIdleFirst(own, idle) == idle \o own

\* a queue that never signals idle
SettleNoIdle(own, idle) == own

\* a job settles: its own promise first, then the idle signal
SettleOrder(own, idle) == own \o idle

(***************************************************************************)
(* Invocations                                                              *)
(***************************************************************************)
\* the documents of the site; invocation i is a pass over document i
Slots == {1, 2}

IdleInv == [pc |-> "idle", idx |-> 0, op |-> "none", src |-> <<>>,
            path |-> <<>>, entry |-> NoEntry, val |-> Null, res |-> Null,
            ts |-> 0, calls |-> <<>>, errs |-> <<>>, cold |-> {},
            del |-> FALSE, ran |-> FALSE, again |-> FALSE, warm |-> FALSE,
            snap |-> <<>>]

InvCont(i) == [t |-> "inv", i |-> i]
AcCont == [t |-> "ac", i |-> 0]

Keys == { CacheKey(resolvePublicPath(s, Context(d))) : s \in Srcs, d \in Slots }

NodeAt(d, k) == [type |-> docs[d][k].type, attrs |-> nodes[d][k]]

\* an unexpired entry is stored under key
Live(key) ==
  /\ store[key] # NoEntry
  /\ ~KeyvExpired(store[key], clock)
  /\ ~isExpired(store[key].timestamp, clock, ttl)

\* the image paths document d refers to (as handed in / as it is now)
DocPaths(d) ==
  { resolvePublicPath(docs[d][k].attrs.src, Context(d)) :
      k \in { j \in 1..Len(docs[d]) : isImageNode(docs[d][j]) } }

NowPaths(d) ==
  { resolvePublicPath(nodes[d][k].src, Context(d)) :
      k \in { j \in 1..Len(docs[d]) : isImageNode(NodeAt(d, j)) } }

\* the image paths of document d that have no live cache entry
ColdPaths(d) == { p \in NowPaths(d) : ~Live(CacheKey(p)) }

\* #processNode arrives at child r.idx and runs to the first await
VisitNode(d, r) ==
  IF r.idx > Len(docs[d])
  THEN [r EXCEPT !.pc = "idle", !.ran = TRUE, !.idx = 0]
  ELSE LET node == NodeAt(d, r.idx) IN
       IF ~isImageNode(node) \/ SkipImage(node.attrs, processed)
       THEN [r EXCEPT !.idx = @ + 1]
       ELSE [r EXCEPT !.pc = "kget", !.op = "has", !.src = node.attrs.src,
                      !.path = resolvePublicPath(node.attrs.src, Context(d))]

\* where the continuation of a finished pass goes: nowhere
ContOf(i, r) == IF r.pc = "idle" THEN <<>> ELSE <<InvCont(i)>>

\* the job function starts: it calls processor.process
StartJob(r) == [r EXCEPT !.pc = "running", !.calls = Append(@, r.path)]

NextTurn(rdy) == IF rdy = <<>> THEN "host" ELSE "micro"

JobPcs == {"queued", "running", "kset", "cset", "jobret", "addret"}

\* the invocations with a submitted job whose effects are not all done
OpenJobs == { i \in DOMAIN inv : inv[i].pc \in JobPcs }

AtHead(i, pc) == ready # <<>> /\ Head(ready) = InvCont(i) /\ inv[i].pc = pc

RetPc(r) == IF r.op = "has" THEN "hasret" ELSE "getret"

(***************************************************************************)
(* Initial states: the plugin just constructed, n documents of len nodes   *)
(***************************************************************************)
\* the plugin just constructed, with the documents ds (document -> nodes)
InitDocs(ds) ==
  /\ clock = 0
  /\ store = [k \in Keys |-> NoEntry]
  /\ size = 0
  /\ processed = {}
  /\ docs = ds
  /\ nodes = [d \in DOMAIN ds |-> [k \in 1..Len(ds[d]) |-> ds[d][k].attrs]]
  /\ inv = [i \in DOMAIN ds |-> IdleInv]
  /\ running = {}
  /\ queue = <<>>
  /\ ready = <<>>
  /\ turn = "host"
  /\ ac = "none"
  /\ acOpen = {}
  /\ ops = <<>>
  /\ call = NoCall

\* every document is its own copy of one content, in its own directory
InitWith(slots, len) ==
  /\ ttl \in 1..MaxTtl
  /\ concurrency \in 1..MaxConcurrency
  /\ \E q \in [1..len -> UNION { NodeChoices(k) : k \in 1..len }] :
       /\ \A k \in 1..len : q[k] \in NodeChoices(k)
       /\ InitDocs([d \in slots |-> q])

(***************************************************************************)
(* Host calls                                                               *)
(***************************************************************************)
\* processContent(content, context) on document i, up to its first await
Start(i) ==
  /\ turn = "host"
  /\ inv[i].pc = "idle"
  /\ LET r0 == [IdleInv EXCEPT !.pc = "visit", !.idx = 1,
                               !.cold = ColdPaths(i),
                               !.again = inv[i].ran,
                               !.warm = \A p \in DocPaths(i) : Live(CacheKey(p)),
                               !.snap = nodes[i]]
         r == VisitNode(i, r0)
     IN /\ inv' = [inv EXCEPT ![i] = r]
        /\ ready' = ready \o ContOf(i, r)
  /\ UNCHANGED <<call, ops, clock, ttl, concurrency, store, size, processed, docs, nodes,
                 running, queue, turn, ac, acOpen>>

\* afterCollect(context): queue.onIdle() returns at once on an idle queue
AfterCollectCall ==
  /\ turn = "host"
  /\ ac \in {"none", "resolved", "drained"}
  /\ IF running = {} /\ queue = <<>>
     THEN ac' = "resolved" /\ acOpen' = OpenJobs
     ELSE ac' = "waiting" /\ acOpen' = {}
  /\ UNCHANGED <<call, ops, clock, ttl, concurrency, store, size, processed, docs, nodes,
                 inv, running, queue, ready, turn>>

\* time passes
Tick ==
  /\ clock < MaxTime
  /\ clock' = clock + 1
  /\ UNCHANGED <<call, ops, ttl, concurrency, store, size, processed, docs, nodes, inv,
                 running, queue, ready, turn, ac, acOpen>>

(***************************************************************************)
(* Cache.has / Cache.get on behalf of invocation i                          *)
(***************************************************************************)
\* Keyv reads the Map
KeyvGet(i) ==
  /\ AtHead(i, "kget")
  /\ LET key == CacheKey(inv[i].path) IN
       /\ inv' = [inv EXCEPT ![i].pc = "cget",
                             ![i].entry = KeyvGetData(store, key, clock)]
       /\ store' = KeyvGetStore(store, key, clock)
  /\ ready' = Tail(ready) \o <<InvCont(i)>>
  /\ turn' = "micro"
  /\ UNCHANGED <<call, ops, clock, ttl, concurrency, size, processed, docs, nodes,
                 running, queue, ac, acOpen>>

\* Cache.get after `await this.#store.get(key)`
CacheGet(i) ==
  /\ AtHead(i, "cget")
  /\ LET r == inv[i] IN
       inv' = [inv EXCEPT ![i] =
         IF r.entry = NoEntry
         THEN [r EXCEPT !.pc = RetPc(r), !.val = Null]
         ELSE IF isExpired(r.entry.timestamp, clock, ttl)
         THEN [r EXCEPT !.pc = "kdel", !.entry = NoEntry]
         ELSE [r EXCEPT !.pc = RetPc(r), !.val = r.entry.value,
                        !.entry = NoEntry]]
  /\ ready' = Tail(ready) \o <<InvCont(i)>>
  /\ turn' = "micro"
  /\ UNCHANGED <<call, ops, clock, ttl, concurrency, store, size, processed, docs, nodes,
                 running, queue, ac, acOpen>>

\* Cache.delete: `await this.#store.delete(key)`
KeyvDelete(i) ==
  /\ AtHead(i, "kdel")
  /\ LET key == CacheKey(inv[i].path) IN
       /\ inv' = [inv EXCEPT ![i].pc = "cdel", ![i].del = (store[key] # NoEntry)]
       /\ store' = [store EXCEPT ![key] = NoEntry]
  /\ ready' = Tail(ready) \o <<InvCont(i)>>
  /\ turn' = "micro"
  /\ UNCHANGED <<call, ops, clock, ttl, concurrency, size, processed, docs, nodes,
                 running, queue, ac, acOpen>>

\* Cache.delete after the await; Cache.get then returns null
CacheDelete(i) ==
  /\ AtHead(i, "cdel")
  /\ size' = SizeAfterDelete(size, inv[i].del)
  /\ inv' = [inv EXCEPT ![i].pc = RetPc(inv[i]), ![i].val = Null,
                        ![i].del = FALSE]
  /\ ready' = Tail(ready) \o <<InvCont(i)>>
  /\ turn' = "micro"
  /\ UNCHANGED <<call, ops, clock, ttl, concurrency, store, processed, docs, nodes,
                 running, queue, ac, acOpen>>

(***************************************************************************)
(* #processImage and #processNode                                          *)
(***************************************************************************)
\* after `await this.#cache.has(cacheKey)`: the hit branch calls cache.get,
\* the miss branch calls queue.add, which starts the job if a slot is free
HasRet(i) ==
  /\ AtHead(i, "hasret")
  /\ LET r == inv[i] IN
       IF r.val # Null
       THEN /\ inv' = [inv EXCEPT ![i] = [r EXCEPT !.pc = "kget", !.op = "get",
                                                   !.val = Null]]
            /\ ready' = Tail(ready) \o <<InvCont(i)>>
            /\ UNCHANGED <<running, queue>>
       ELSE IF CanStart(Cardinality(running), concurrency)
       THEN /\ inv' = [inv EXCEPT ![i] = StartJob(r)]
            /\ running' = running \cup {i}
            /\ ready' = Tail(ready)
            /\ UNCHANGED queue
       ELSE /\ inv' = [inv EXCEPT ![i].pc = "queued"]
            /\ queue' = Append(queue, i)
            /\ ready' = Tail(ready)
            /\ UNCHANGED running
  /\ turn' = NextTurn(ready')
  /\ UNCHANGED <<call, ops, clock, ttl, concurrency, store, size, processed, docs, nodes,
                 ac, acOpen>>

\* after `await this.#cache.get(cacheKey)`: merge and return
GetRet(i) ==
  /\ AtHead(i, "getret")
  /\ nodes' = [nodes EXCEPT ![i][inv[i].idx] = MergeCached(@, inv[i].val)]
  /\ inv' = [inv EXCEPT ![i].pc = "visit", ![i].idx = @ + 1, ![i].val = Null,
                        ![i].op = "none", ![i].src = <<>>, ![i].path = <<>>]
  /\ ready' = Tail(ready) \o <<InvCont(i)>>
  /\ turn' = "micro"
  /\ UNCHANGED <<call, ops, clock, ttl, concurrency, store, size, processed, docs,
                 running, queue, ac, acOpen>>

\* the for loop of #processNode goes on to the next child
Visit(i) ==
  /\ AtHead(i, "visit")
  /\ LET r == VisitNode(i, inv[i]) IN
       /\ inv' = [inv EXCEPT ![i] = r]
       /\ ready' = Tail(ready) \o ContOf(i, r)
  /\ turn' = NextTurn(ready')
  /\ UNCHANGED <<call, ops, clock, ttl, concurrency, store, size, processed, docs, nodes,
                 running, queue, ac, acOpen>>

\* a queue that stops at a job that threw: the waiting jobs are not started
\* and idle is not signalled
SettleStops(i, r, rest) ==
  IF r.res = Failed
  THEN /\ inv' = [inv EXCEPT ![i] = r]
       /\ running' = running \ {i}
       /\ ready' = rest \o <<InvCont(i)>>
       /\ UNCHANGED <<queue, ac>>
  ELSE IF queue # <<>>
  THEN /\ inv' = [inv EXCEPT ![i] = r, ![Head(queue)] = StartJob(inv[Head(queue)])]
       /\ running' = (running \ {i}) \cup {Head(queue)}
       /\ queue' = Tail(queue)
       /\ ready' = rest \o <<InvCont(i)>>
       /\ UNCHANGED ac
  ELSE /\ inv' = [inv EXCEPT ![i] = r]
       /\ running' = running \ {i}
       /\ UNCHANGED queue
       /\ IF running \ {i} = {} /\ ac = "waiting"
          THEN /\ ac' = "ready"
               /\ ready' = rest \o SettleOrder(<<InvCont(i)>>, <<AcCont>>)
          ELSE /\ UNCHANGED ac
               /\ ready' = rest \o <<InvCont(i)>>

\* PQueue after a job of invocation i settled with record r: the slot is
\* freed, the next waiting job starts, an empty queue signals idle
Settle(i, r, rest) ==
  LET left == running \ {i} IN
  IF queue # <<>>
  THEN /\ inv' = [inv EXCEPT ![i] = r, ![Head(queue)] = StartJob(inv[Head(queue)])]
       /\ running' = left \cup {Head(queue)}
       /\ queue' = Tail(queue)
       /\ ready' = rest \o <<InvCont(i)>>
       /\ UNCHANGED ac
  ELSE /\ inv' = [inv EXCEPT ![i] = r]
       /\ running' = left
       /\ UNCHANGED queue
       /\ IF left = {} /\ ac = "waiting"
          THEN /\ ac' = "ready"
               /\ ready' = rest \o SettleOrder(<<InvCont(i)>>, <<AcCont>>)
          ELSE /\ UNCHANGED ac
               /\ ready' = rest \o <<InvCont(i)>>

\* a job that marks its src as processed although process threw
JobIOMarksFailure(i) ==
  /\ ready = <<>>
  /\ inv[i].pc = "running"
  /\ LET r == inv[i] IN
       IF ProcessOk(r.path)
       THEN /\ inv' = [inv EXCEPT ![i] =
                 [r EXCEPT !.pc = "kset", !.ts = clock,
                           !.res = BuildAttrs(nodes[i][r.idx], process(r.path), r.src)]]
            /\ ready' = <<InvCont(i)>>
            /\ UNCHANGED <<running, queue, ac, processed>>
       ELSE /\ Settle(i, [r EXCEPT !.pc = "addret", !.res = Failed], <<>>)
            /\ processed' = processed \cup {r.src}
  /\ turn' = "micro"
  /\ UNCHANGED <<call, ops, clock, ttl, concurrency, store, size, docs, nodes,
                 acOpen>>

\* processor.process finishes (an I/O completion): the job builds attrs and
\* calls cache.set, or process threw and the job rejects
JobIO(i) ==
  /\ ready = <<>>
  /\ inv[i].pc = "running"
  /\ LET r == inv[i] IN
       IF ProcessOk(r.path)
       THEN /\ inv' = [inv EXCEPT ![i] =
                 [r EXCEPT !.pc = "kset", !.ts = clock,
                           !.res = BuildAttrs(nodes[i][r.idx], process(r.path), r.src)]]
            /\ ready' = <<InvCont(i)>>
            /\ UNCHANGED <<running, queue, ac>>
       ELSE Settle(i, [r EXCEPT !.pc = "addret", !.res = Failed], <<>>)
  /\ turn' = "micro"
  /\ UNCHANGED <<call, ops, clock, ttl, concurrency, store, size, processed, docs, nodes,
                 acOpen>>

\* Keyv.set writes the Map, with its own expiry time
KeyvSet(i) ==
  /\ AtHead(i, "kset")
  /\ store' = [store EXCEPT ![CacheKey(inv[i].path)] =
                 [value |-> inv[i].res, timestamp |-> inv[i].ts,
                  expires |-> clock + ttl]]
  /\ inv' = [inv EXCEPT ![i].pc = "cset", ![i].ts = 0]
  /\ ready' = Tail(ready) \o <<InvCont(i)>>
  /\ turn' = "micro"
  /\ UNCHANGED <<call, ops, clock, ttl, concurrency, size, processed, docs, nodes,
                 running, queue, ac, acOpen>>

\* Cache.set after `await this.#store.set(...)`
CacheSet(i) ==
  /\ AtHead(i, "cset")
  /\ size' = size + 1
  /\ inv' = [inv EXCEPT ![i].pc = "jobret"]
  /\ ready' = Tail(ready) \o <<InvCont(i)>>
  /\ turn' = "micro"
  /\ UNCHANGED <<call, ops, clock, ttl, concurrency, store, processed, docs, nodes,
                 running, queue, ac, acOpen>>

\* the job after `await this.#cache.set(...)`: processed.add, return attrs
JobRet(i) ==
  /\ AtHead(i, "jobret")
  /\ processed' = processed \cup {inv[i].src}
  /\ Settle(i, [inv[i] EXCEPT !.pc = "addret"], Tail(ready))
  /\ turn' = "micro"
  /\ UNCHANGED <<call, ops, clock, ttl, concurrency, store, size, docs, nodes, acOpen>>

\* the catch of #processImage (lines 144-147): the error is recorded and
\* #processImage returns, so the loop of #processNode goes on
CatchErr(r) ==
  [r EXCEPT !.pc = "visit", !.idx = @ + 1, !.res = Null,
            !.op = "none", !.src = <<>>, !.path = <<>>,
            !.errs = Append(@, [msg |-> "Failed to process image", src |-> r.src])]

\* a #processImage that throws the result of the job away
AddRetDropsResult(i) ==
  /\ AtHead(i, "addret")
  /\ LET r == inv[i]
         r2 == IF r.res = Failed THEN CatchErr(r)
               ELSE [r EXCEPT !.pc = "visit", !.idx = @ + 1, !.res = Null,
                              !.op = "none", !.src = <<>>, !.path = <<>>]
     IN /\ inv' = [inv EXCEPT ![i] = r2]
        /\ ready' = Tail(ready) \o ContOf(i, r2)
  /\ turn' = NextTurn(ready')
  /\ UNCHANGED <<call, ops, clock, ttl, concurrency, store, size, processed, docs,
                 nodes, running, queue, ac, acOpen>>

\* after `await this.#queue.add(...)`: node.attrs = result, or the catch
AddRet(i) ==
  /\ AtHead(i, "addret")
  /\ LET r == inv[i]
         r2 == IF r.res = Failed THEN CatchErr(r)
               ELSE [r EXCEPT !.pc = "visit", !.idx = @ + 1, !.res = Null,
                              !.op = "none", !.src = <<>>, !.path = <<>>]
     IN /\ nodes' = IF r.res = Failed THEN nodes
                     ELSE [nodes EXCEPT ![i][r.idx] = r.res]
        /\ inv' = [inv EXCEPT ![i] = r2]
        /\ ready' = Tail(ready) \o ContOf(i, r2)
  /\ turn' = NextTurn(ready')
  /\ UNCHANGED <<call, ops, clock, ttl, concurrency, store, size, processed, docs,
                 running, queue, ac, acOpen>>

\* afterCollect after `await this.#queue.onIdle()`
AcRet ==
  /\ ready # <<>> /\ Head(ready) = AcCont
  /\ ac' = "drained"
  /\ acOpen' = OpenJobs
  /\ ready' = Tail(ready)
  /\ turn' = NextTurn(ready')
  /\ UNCHANGED <<call, ops, clock, ttl, concurrency, store, size, processed, docs, nodes,
                 inv, running, queue>>

\* the steps that need no passing of time
Run ==
  \/ \E i \in DOMAIN inv : Start(i)
  \/ AfterCollectCall
  \/ \E i \in DOMAIN inv : KeyvGet(i)
  \/ \E i \in DOMAIN inv : CacheGet(i)
  \/ \E i \in DOMAIN inv : HasRet(i)
  \/ \E i \in DOMAIN inv : GetRet(i)
  \/ \E i \in DOMAIN inv : Visit(i)
  \/ \E i \in DOMAIN inv : JobIO(i)
  \/ \E i \in DOMAIN inv : KeyvSet(i)
  \/ \E i \in DOMAIN inv : CacheSet(i)
  \/ \E i \in DOMAIN inv : JobRet(i)
  \/ \E i \in DOMAIN inv : AddRet(i)
  \/ AcRet

\* the steps of an expiry
Expire ==
  \/ Tick
  \/ \E i \in DOMAIN inv : KeyvDelete(i)
  \/ \E i \in DOMAIN inv : CacheDelete(i)

Next == Run \/ Expire

\* one document, passes one after the other, entries may expire
Init == InitWith({1}, DocLen)

Spec == Init /\ [][Next]_vars

\* several documents, passes may overlap, no entry expires
InitConc == InitWith(Slots, DocLen)

SpecConc == InitConc /\ [][Run]_vars

\* the continuations of settled promises: the event loop runs them in turn
Micro ==
  \/ \E i \in DOMAIN inv : KeyvGet(i)
  \/ \E i \in DOMAIN inv : CacheGet(i)
  \/ \E i \in DOMAIN inv : HasRet(i)
  \/ \E i \in DOMAIN inv : GetRet(i)
  \/ \E i \in DOMAIN inv : Visit(i)
  \/ \E i \in DOMAIN inv : KeyvSet(i)
  \/ \E i \in DOMAIN inv : CacheSet(i)
  \/ \E i \in DOMAIN inv : JobRet(i)
  \/ \E i \in DOMAIN inv : AddRet(i)
  \/ AcRet

\* the host passes over every document at most twice
StartPass(i) == ~inv[i].again /\ Start(i)

NextLive ==
  \/ \E i \in DOMAIN inv : StartPass(i)
  \/ AfterCollectCall
  \/ Micro
  \/ \E i \in DOMAIN inv : JobIO(i)

\* documents of two image nodes each, every mix of a source that can be
\* generated ("/a", also written "/./a") and one that cannot ("/x")
LiveContents ==
  { << [type |-> "image", attrs |-> [src |-> s1, alt |-> 1]],
       [type |-> "image", attrs |-> [src |-> s2, alt |-> 2]] >> :
      s1 \in { <<"/", "a">>, <<"/", "x">> },
      s2 \in { <<"/", ".", "a">>, <<"/", "x">> } }

InitLive ==
  /\ ttl = MaxTtl
  /\ concurrency \in 1..MaxConcurrency
  /\ \E ds \in [Slots -> LiveContents] : InitDocs(ds)

\* several documents, finitely many passes; the event loop keeps running
\* ready continuations, and every call of ImageProcessor.process returns or
\* throws in the end
SpecLive ==
  /\ InitLive
  /\ [][NextLive]_vars
  /\ WF_vars(Micro)
  /\ \A i \in Slots : WF_vars(JobIO(i))

(***************************************************************************)
(* The Cache used directly: set, get, has, delete and clear, called by a    *)
(* host that may or may not await one call before it makes the next.        *)
(* Keyv runs every call as a chain of promise reactions: get, delete and    *)
(* clear reach the Map in the first reaction, set in the second, and the    *)
(* promise of set is settled one reaction after the Map was written.        *)
(***************************************************************************)
pluginVars ==
  <<concurrency, processed, docs, nodes, inv, running, queue, ac, acOpen, call>>

NoRet == [pending |-> TRUE]     \* the call has not settled
Ok == [ok |-> TRUE]             \* a call that resolves with undefined
Bool(b) == [b |-> b]

OpCont(n) == [t |-> "op", i |-> n]

AtHeadOp(n, pc) == ready # <<>> /\ Head(ready) = OpCont(n) /\ ops[n].pc = pc

\* the calls that have not settled
Pending == { m \in 1..Len(ops) : ops[m].pc # "done" }

\* call number Len(ops) + 1 is made; it runs to its first await
NewOp(kind, key, pc) ==
  [kind |-> kind, key |-> key, val |-> [v |-> Len(ops) + 1], pc |-> pc,
   ts |-> clock, exp |-> 0, entry |-> NoEntry, del |-> FALSE, tmp |-> Null,
   ret |-> NoRet, t0 |-> clock, t1 |-> 0, sz0 |-> size, sz1 |-> 0,
   e0 |-> IF kind = "clear" THEN NoEntry ELSE store[KeyPrefix(key)],
   pend |-> Pending]

Call(kind, key, pc) ==
  /\ turn = "host"
  /\ Len(ops) < MaxOps
  /\ ops' = Append(ops, NewOp(kind, key, pc))
  /\ ready' = Append(ready, OpCont(Len(ops) + 1))
  /\ UNCHANGED <<clock, ttl, store, size, turn>>
  /\ UNCHANGED pluginVars

CallSet(key) == Call("set", key, "kset_a")
CallGet(key) == Call("get", key, "kget_a")
CallHas(key) == Call("has", key, "kget_a")
CallDelete(key) == Call("delete", key, "kdel")
CallClear == Call("clear", NullKey, "kclear")

\* the call settles
Done(o, ret) ==
  [o EXCEPT !.pc = "done", !.ret = ret, !.t1 = clock, !.entry = NoEntry,
            !.del = FALSE, !.tmp = Null]

\* Cache.get returns v: to its caller, or to Cache.has
GetResult(o, v) ==
  IF o.kind = "has" THEN [o EXCEPT !.pc = "chas", !.tmp = v, !.entry = NoEntry]
  ELSE Done(o, v)

\* the reaction at the head of ready ran: it left call n in state o, the
\* Map as st and #size as sz
Step(n, o, st, sz) ==
  /\ store' = st
  /\ size' = sz
  /\ ops' = [ops EXCEPT ![n] = IF o.pc = "done" THEN [o EXCEPT !.sz1 = sz] ELSE o]
  /\ ready' = IF o.pc = "done" THEN Tail(ready) ELSE Tail(ready) \o <<OpCont(n)>>
  /\ turn' = NextTurn(ready')
  /\ UNCHANGED <<clock, ttl>>
  /\ UNCHANGED pluginVars

\* Keyv.set, first reaction: the expiry time is computed
OpKeyvSetA(n) ==
  /\ AtHeadOp(n, "kset_a")
  /\ Step(n, [ops[n] EXCEPT !.pc = "kset_b", !.exp = clock + ttl], store, size)

\* Keyv.set, second reaction: the Map is written
OpKeyvSetB(n) ==
  /\ AtHeadOp(n, "kset_b")
  /\ Step(n, [ops[n] EXCEPT !.pc = "kset_c"],
          [store EXCEPT ![KeyPrefix(ops[n].key)] =
             [value |-> ops[n].val, timestamp |-> ops[n].ts,
              expires |-> ops[n].exp]],
          size)

\* Keyv.set, last reaction: the promise of Keyv.set is given its value
OpKeyvSetC(n) ==
  /\ AtHeadOp(n, "kset_c")
  /\ Step(n, [ops[n] EXCEPT !.pc = "cset"], store, size)

\* Cache.set after `await this.#store.set(...)`
OpCacheSet(n) ==
  /\ AtHeadOp(n, "cset")
  /\ Step(n, Done(ops[n], Ok), store, size + 1)

\* Keyv.get, first reaction: the Map is read
OpKeyvGetA(n) ==
  /\ AtHeadOp(n, "kget_a")
  /\ Step(n, [ops[n] EXCEPT !.pc = "kget_b", !.entry = store[KeyPrefix(ops[n].key)]],
          store, size)

\* Keyv.get, last reaction: an entry past its expiry is deleted by Keyv
OpKeyvGetB(n) ==
  /\ AtHeadOp(n, "kget_b")
  /\ LET o == ops[n] IN
       IF o.entry # NoEntry /\ KeyvExpired(o.entry, clock)
       THEN Step(n, [o EXCEPT !.pc = "kget_d", !.entry = NoEntry], store, size)
       ELSE Step(n, [o EXCEPT !.pc = "cget"], store, size)

\* Keyv.delete called by Keyv.get
OpKeyvGetD(n) ==
  /\ AtHeadOp(n, "kget_d")
  /\ Step(n, [ops[n] EXCEPT !.pc = "cget"],
          [store EXCEPT ![KeyPrefix(ops[n].key)] = NoEntry], size)

\* Cache.get after `await this.#store.get(key)`
OpCacheGet(n) ==
  /\ AtHeadOp(n, "cget")
  /\ LET o == ops[n] IN
       IF o.entry = NoEntry THEN Step(n, GetResult(o, Null), store, size)
       ELSE IF isExpired(o.entry.timestamp, clock, ttl)
       THEN Step(n, [o EXCEPT !.pc = "kdel", !.entry = NoEntry], store, size)
       ELSE Step(n, GetResult(o, o.entry.value), store, size)

\* Keyv.delete: Map.delete tells whether the key was there
OpKeyvDelete(n) ==
  /\ AtHeadOp(n, "kdel")
  /\ Step(n, [ops[n] EXCEPT !.pc = "cdel",
                            !.del = (store[KeyPrefix(ops[n].key)] # NoEntry)],
          [store EXCEPT ![KeyPrefix(ops[n].key)] = NoEntry], size)

\* Cache.delete after `await this.#store.delete(key)`; called by Cache.get,
\* that one returns null
OpCacheDelete(n) ==
  /\ AtHeadOp(n, "cdel")
  /\ LET o == ops[n] IN
       Step(n, IF o.kind = "delete" THEN Done(o, Bool(o.del))
               ELSE GetResult([o EXCEPT !.del = FALSE], Null),
            store, SizeAfterDelete(size, o.del))

\* Cache.has after `await this.get(key)`
OpCacheHas(n) ==
  /\ AtHeadOp(n, "chas")
  /\ Step(n, Done(ops[n], Bool(ops[n].tmp # Null)), store, size)

\* Keyv.clear
OpKeyvClear(n) ==
  /\ AtHeadOp(n, "kclear")
  /\ Step(n, [ops[n] EXCEPT !.pc = "cclear"], ClearStore(store), size)

\* Cache.clear after `await this.#store.clear()`
OpCacheClear(n) ==
  /\ AtHeadOp(n, "cclear")
  /\ Step(n, Done(ops[n], Ok), store, 0)

\* a Cache just constructed, no plugin around it
InitCache ==
  /\ clock = 0
  /\ ttl = MaxTtl
  /\ concurrency = 1
  /\ store = [k \in { KeyPrefix(key) : key \in HostKeys } |-> NoEntry]
  /\ size = 0
  /\ processed = {}
  /\ docs = <<>>
  /\ nodes = <<>>
  /\ inv = <<>>
  /\ running = {}
  /\ queue = <<>>
  /\ ready = <<>>
  /\ turn = "host"
  /\ ac = "none"
  /\ acOpen = {}
  /\ ops = <<>>
  /\ call = NoCall

\* calls of every kind, awaited or not, and no time passing
NextCache ==
  \/ \E key \in HostKeys : CallSet(key)
  \/ \E key \in RealKeys : CallGet(key)
  \/ \E key \in RealKeys : CallHas(key)
  \/ \E key \in RealKeys : CallDelete(key)
  \/ CallClear
  \/ \E n \in DOMAIN ops : OpKeyvSetA(n)
  \/ \E n \in DOMAIN ops : OpKeyvSetB(n)
  \/ \E n \in DOMAIN ops : OpKeyvSetC(n)
  \/ \E n \in DOMAIN ops : OpCacheSet(n)
  \/ \E n \in DOMAIN ops : OpKeyvGetA(n)
  \/ \E n \in DOMAIN ops : OpKeyvGetB(n)
  \/ \E n \in DOMAIN ops : OpCacheGet(n)
  \/ \E n \in DOMAIN ops : OpKeyvDelete(n)
  \/ \E n \in DOMAIN ops : OpCacheDelete(n)
  \/ \E n \in DOMAIN ops : OpCacheHas(n)
  \/ \E n \in DOMAIN ops : OpKeyvClear(n)
  \/ \E n \in DOMAIN ops : OpCacheClear(n)

SpecCache == InitCache /\ [][NextCache]_vars

\* time passes between two runs of the event loop, not within one; time 0
\* is the time of the first call
TickHost == turn = "host" /\ ops # <<>> /\ Tick

\* set, get, has and delete on one key while time passes
NextTtl ==
  \/ \E key \in RealKeys : CallSet(key)
  \/ \E key \in RealKeys : CallGet(key)
  \/ \E key \in RealKeys : CallHas(key)
  \/ \E key \in RealKeys : CallDelete(key)
  \/ \E n \in DOMAIN ops : OpKeyvSetA(n)
  \/ \E n \in DOMAIN ops : OpKeyvSetB(n)
  \/ \E n \in DOMAIN ops : OpKeyvSetC(n)
  \/ \E n \in DOMAIN ops : OpCacheSet(n)
  \/ \E n \in DOMAIN ops : OpKeyvGetA(n)
  \/ \E n \in DOMAIN ops : OpKeyvGetB(n)
  \/ \E n \in DOMAIN ops : OpKeyvGetD(n)
  \/ \E n \in DOMAIN ops : OpCacheGet(n)
  \/ \E n \in DOMAIN ops : OpKeyvDelete(n)
  \/ \E n \in DOMAIN ops : OpCacheDelete(n)
  \/ \E n \in DOMAIN ops : OpCacheHas(n)
  \/ TickHost

SpecTtl == InitCache /\ [][NextTtl]_vars

(***************************************************************************)
(* The Cache called by an async function: it makes a call without awaiting  *)
(* it, or lets one round of reactions pass (`await null`), so that its      *)
(* calls fall between the reactions of the calls in flight.                 *)
(***************************************************************************)
HostCont == [t |-> "host", i |-> 0]

AtHeadHost == ready # <<>> /\ Head(ready) = HostCont

\* the caller makes call number Len(ops) + 1 and goes on after `await null`
HostCall(kind, key, pc) ==
  /\ AtHeadHost
  /\ Len(ops) < MaxOps
  /\ ops' = Append(ops, NewOp(kind, key, pc))
  /\ ready' = Tail(ready) \o <<OpCont(Len(ops) + 1), HostCont>>
  /\ UNCHANGED <<clock, ttl, store, size, turn>>
  /\ UNCHANGED pluginVars

\* the caller lets the reactions that are queued run first
HostYield ==
  /\ AtHeadHost
  /\ Pending # {}
  /\ ready' = Tail(ready) \o <<HostCont>>
  /\ UNCHANGED <<clock, ttl, store, size, turn, ops>>
  /\ UNCHANGED pluginVars

InitRace ==
  /\ clock = 0
  /\ ttl = MaxTtl
  /\ concurrency = 1
  /\ store = [k \in { KeyPrefix(key) : key \in HostKeys } |-> NoEntry]
  /\ size = 0
  /\ processed = {}
  /\ docs = <<>>
  /\ nodes = <<>>
  /\ inv = <<>>
  /\ running = {}
  /\ queue = <<>>
  /\ ready = <<HostCont>>
  /\ turn = "micro"
  /\ ac = "none"
  /\ acOpen = {}
  /\ ops = <<>>
  /\ call = NoCall

NextRace ==
  \/ \E key \in RealKeys : HostCall("set", key, "kset_a")
  \/ \E key \in RealKeys : HostCall("get", key, "kget_a")
  \/ \E key \in RealKeys : HostCall("delete", key, "kdel")
  \/ HostCall("clear", NullKey, "kclear")
  \/ HostYield
  \/ \E n \in DOMAIN ops : OpKeyvSetA(n)
  \/ \E n \in DOMAIN ops : OpKeyvSetB(n)
  \/ \E n \in DOMAIN ops : OpKeyvSetC(n)
  \/ \E n \in DOMAIN ops : OpCacheSet(n)
  \/ \E n \in DOMAIN ops : OpKeyvGetA(n)
  \/ \E n \in DOMAIN ops : OpKeyvGetB(n)
  \/ \E n \in DOMAIN ops : OpCacheGet(n)
  \/ \E n \in DOMAIN ops : OpKeyvDelete(n)
  \/ \E n \in DOMAIN ops : OpCacheDelete(n)
  \/ \E n \in DOMAIN ops : OpKeyvClear(n)
  \/ \E n \in DOMAIN ops : OpCacheClear(n)

SpecRace == InitRace /\ [][NextRace]_vars

(***************************************************************************)
(* Properties                                                               *)
(***************************************************************************)
\* the pass of invocation i has resolved
PassDone(i) == inv[i].pc = "idle" /\ inv[i].ran

HasComputed(attrs) == Computed \subseteq DOMAIN attrs

Count(seq, x) == Cardinality({ k \in 1..Len(seq) : seq[k] = x })

\* node k of document i as the running or last pass of i found it
SnapNode(i, k) == [type |-> docs[i][k].type, attrs |-> inv[i].snap[k]]

SnapPath(i, k) == resolvePublicPath(inv[i].snap[k].src, Context(i))

Positions(i) == 1..Len(docs[i])

\* C1: when all nodes of a document are image nodes with one and the same
\* valid source that was uncached when the pass began, then after the pass
\* every node carries srcset, sizes, width, height and originalSrc, with the
\* same values on all nodes.
C1_SameSourceSameAttributes ==
  \A i \in DOMAIN inv : \A s \in Srcs :
    ( /\ PassDone(i)
      /\ \A k \in Positions(i) : isImageNode(SnapNode(i, k)) /\ inv[i].snap[k].src = s
      /\ ProcessOk(resolvePublicPath(s, Context(i)))
      /\ resolvePublicPath(s, Context(i)) \in inv[i].cold )
    => /\ \A k \in Positions(i) : HasComputed(nodes[i][k])
       /\ \A k, l \in Positions(i) : \A f \in Computed :
            nodes[i][k][f] = nodes[i][l][f]

\* C2: a resolved pass has called ImageProcessor.process exactly once for
\* every source of its document that was uncached when the pass began.
C2_OneJobPerUncachedSource ==
  \A i \in DOMAIN inv :
    PassDone(i) => \A p \in inv[i].cold : Count(inv[i].calls, p) = 1

\* C3: a pass that repeats an earlier pass over the same document, begun
\* with every image source of the document cached and while they stay
\* cached, leaves the attrs of every node as it found them and never calls
\* ImageProcessor.process.
C3_SecondPassIdempotent ==
  \A i \in DOMAIN inv :
    ( /\ inv[i].again /\ inv[i].warm
      /\ DocPaths(i) # {}
      /\ \A p \in DocPaths(i) : Live(CacheKey(p)) )
    => nodes[i] = inv[i].snap /\ inv[i].calls = <<>>

C3_Witness ==
  \E i \in DOMAIN inv :
    /\ PassDone(i) /\ inv[i].again /\ inv[i].warm
    /\ DocPaths(i) # {}
    /\ \A p \in DocPaths(i) : Live(CacheKey(p))
    /\ \E k \in Positions(i) : HasComputed(nodes[i][k])

\* C4: after a pass whose document holds exactly one image node with a
\* source that cannot be generated, context.errors holds exactly one record,
\* that node has the attrs it had, and every other image node carries the
\* computed attributes.
C4_FailureIsolation ==
  \A i \in DOMAIN inv :
    LET img == IF PassDone(i)
               THEN { k \in Positions(i) : isImageNode(SnapNode(i, k)) } ELSE {}
        bad == { k \in img : ~ProcessOk(SnapPath(i, k)) }
    IN (PassDone(i) /\ Cardinality(bad) = 1)
       => /\ Len(inv[i].errs) = 1
          /\ \A k \in bad : nodes[i][k] = inv[i].snap[k]
          /\ \A k \in img \ bad : HasComputed(nodes[i][k])

\* C5: every node always has either exactly the attrs it was handed in with
\* or all of srcset, sizes, width, height and originalSrc.
C5_NoPartialMerge ==
  \A d \in DOMAIN docs : \A k \in Positions(d) :
    nodes[d][k] = docs[d][k].attrs \/ HasComputed(nodes[d][k])

C5_Witness ==
  \E i \in DOMAIN inv : \E k, l \in Positions(i) :
    /\ PassDone(i)
    /\ HasComputed(nodes[i][k])
    /\ isImageNode(docs[i][l]) /\ nodes[i][l] = docs[i][l].attrs

\* C6: the assignment of the cache-hit branch keeps every attribute the node
\* had that is not one of the five computed ones, adds exactly the five, and
\* sets originalSrc to the node's own src.
C6_CacheHitKeepsOwnAttrs ==
  [][ \A i \in DOMAIN inv :
        (AtHead(i, "getret") /\ inv[i].val # Null /\ inv'[i].pc = "visit")
        => LET old == nodes[i][inv[i].idx]
               new == nodes'[i][inv[i].idx]
           IN /\ DOMAIN new = (DOMAIN old) \cup Computed
              /\ \A f \in (DOMAIN old) \ Computed : new[f] = old[f]
              /\ new.originalSrc = old.src ]_vars

\* C7: a resolved pass has called ImageProcessor.process for every valid
\* source of its document that had no unexpired cache entry when the pass
\* began, also when that source was processed by an earlier pass.
C7_ExpiredSourceReprocessed ==
  \A i \in DOMAIN inv :
    PassDone(i) =>
      \A p \in inv[i].cold : ProcessOk(p) => Count(inv[i].calls, p) >= 1

\* C8: the number of jobs PQueue is executing never exceeds concurrency.
ExecPcs == {"running", "kset", "cset", "jobret"}

C8_ConcurrencyBound ==
  Cardinality({ i \in DOMAIN inv : inv[i].pc \in ExecPcs }) <= concurrency

C8_Witness ==
  /\ queue # <<>>
  /\ Cardinality({ i \in DOMAIN inv : inv[i].pc \in ExecPcs }) = concurrency

\* C9: when afterCollect resolves, no invocation has a job that is waiting,
\* executing, or settled with its node.attrs assignment still to come.
C9_AfterCollectDrains ==
  ac \in {"resolved", "drained"} => acOpen = {}

C9_Witness ==
  /\ ac = "drained"
  /\ \E i \in DOMAIN inv : \E k \in Positions(i) :
       HasComputed(nodes[i][k]) /\ ~HasComputed(docs[i][k].attrs)

\* C10: with concurrency >= 2, while an invocation awaits the job of one
\* image node, the job of every later image node of the document with another
\* source, uncached and not yet processed, has been submitted as well.
C10_SiblingJobsSubmitted ==
  \A i \in DOMAIN inv :
    (inv[i].pc = "running" /\ concurrency >= 2)
    => \A k \in (inv[i].idx + 1)..Len(docs[i]) :
         LET node == NodeAt(i, k) IN
         ( /\ isImageNode(node)
           /\ node.attrs.src \notin processed
           /\ resolvePublicPath(node.attrs.src, Context(i)) # inv[i].path
           /\ ~Live(CacheKey(resolvePublicPath(node.attrs.src, Context(i)))) )
         => Count(inv[i].calls, resolvePublicPath(node.attrs.src, Context(i))) >= 1

\* the positions of document i that held an image node with a source that
\* cannot be generated when the running or last pass of i began
BadPositions(i) ==
  { k \in Positions(i) : isImageNode(SnapNode(i, k)) /\ ~ProcessOk(SnapPath(i, k)) }

\* C11: every pass resolves with one error record per image node whose
\* generation failed, each with a message starting 'Failed to process image'
\* and naming that node's src, and the nodes after a failing node were
\* visited all the same (a failing node at any position adds its record).
C11_FailuresCaughtPerNode ==
  \A i \in DOMAIN inv :
    PassDone(i) =>
      /\ Len(inv[i].errs) = Cardinality(BadPositions(i))
      /\ \A n \in 1..Len(inv[i].errs) :
           /\ inv[i].errs[n].msg = "Failed to process image"
           /\ \E k \in BadPositions(i) : inv[i].errs[n].src = inv[i].snap[k].src

C11_Witness ==
  \E i \in DOMAIN inv :
    /\ PassDone(i)
    /\ 1 \in BadPositions(i)
    /\ Len(inv[i].errs) = 1
    /\ HasComputed(nodes[i][2]) /\ ~HasComputed(inv[i].snap[2])

\* C12: when the event loop keeps running and every call of
\* ImageProcessor.process returns or throws, every processContent invocation
\* that was started resolves in the end, and every afterCollect call that
\* waits for the queue resolves in the end.
C12_PassesAndDrainResolve ==
  /\ \A i \in Slots : (inv[i].pc # "idle") ~> PassDone(i)
  /\ (ac = "waiting") ~> (ac = "drained")

C12_Witness ==
  /\ ac = "drained"
  /\ \A i \in DOMAIN inv : PassDone(i) /\ inv[i].again
  /\ \E i \in DOMAIN inv : inv[i].errs # <<>> /\ Len(inv[i].calls) = 2

\* C13: the step in which a job throws rejects the submission of that job
\* alone and takes no other job out of the queue; every submitted job whose
\* source can be generated still completes with the computed attributes; and
\* an afterCollect that waits while a job has thrown is still released.
C13_FailedJobIsolated ==
  /\ [][ \A i \in Slots :
          (inv[i].pc = "running" /\ inv'[i].res = Failed)
          => \A j \in Slots \ {i} :
               /\ inv[j].res # Failed => inv'[j].res # Failed
               /\ j \in running => j \in running'
               /\ inv[j].pc = "queued" => inv'[j].pc \in {"queued", "running"} ]_vars
  /\ \A j \in Slots :
       (inv[j].pc \in {"queued", "running"} /\ ProcessOk(inv[j].path))
       ~> (inv[j].pc = "addret" /\ HasComputed(inv[j].res))
  /\ (ac = "waiting" /\ \E i \in Slots : inv[i].res = Failed) ~> (ac = "drained")

C13_Witness ==
  \E i, j \in DOMAIN inv :
    /\ concurrency = 1 /\ ac = "waiting"
    /\ inv[i].pc = "addret" /\ inv[i].res = Failed
    /\ inv[j].pc = "running" /\ ProcessOk(inv[j].path)

(***************************************************************************)
(* Properties of the Cache used directly                                    *)
(***************************************************************************)
IsDone(n) == ops[n].pc = "done"

\* call n was awaited: nothing was pending when it was made, and nothing
\* else was called before it settled
Alone(n) ==
  /\ ops[n].pend = {}
  /\ \A m \in (n + 1)..Len(ops) : n \notin ops[m].pend

\* the age at the call and at the return of call n of the entry it found
AgeAtCall(n) == ops[n].t0 - ops[n].e0.timestamp
AgeAtReturn(n) == ops[n].t1 - ops[n].e0.timestamp

Stored == { k \in DOMAIN store : store[k] # NoEntry }

\* C14: an awaited get that finds an entry stored at time T returns the
\* stored value when it returns at a time t with t - T < ttl, and returns
\* null when it is called at a time t with t - T > ttl.
C14_GetRespectsTtl ==
  \A n \in DOMAIN ops :
    (ops[n].kind = "get" /\ IsDone(n) /\ Alone(n) /\ ops[n].e0 # NoEntry)
    => /\ AgeAtReturn(n) < ttl => ops[n].ret = ops[n].e0.value
       /\ AgeAtCall(n) > ttl => ops[n].ret = Null

C14_Witness ==
  \E n, m \in DOMAIN ops :
    /\ ops[n].kind = "get" /\ IsDone(n) /\ Alone(n) /\ ops[n].e0 # NoEntry
    /\ AgeAtReturn(n) < ttl /\ ops[n].ret = ops[n].e0.value
    /\ ops[m].kind = "get" /\ IsDone(m) /\ Alone(m) /\ ops[m].e0 # NoEntry
    /\ AgeAtCall(m) > ttl /\ ops[m].ret = Null

\* C15: an awaited get or has that finds an entry whose age exceeds the ttl
\* returns absent, leaves the key without an entry, and leaves size one
\* lower than it was at the call.
C15_ExpiredReadDecrementsSize ==
  \A n \in DOMAIN ops :
    ( /\ ops[n].kind \in {"get", "has"} /\ IsDone(n) /\ Alone(n)
      /\ ops[n].e0 # NoEntry /\ AgeAtCall(n) > ttl )
    => /\ ops[n].ret \in {Null, Bool(FALSE)}
       /\ n = Len(ops) => store[KeyPrefix(ops[n].key)] = NoEntry
       /\ ops[n].sz1 = ops[n].sz0 - 1

\* C16: after a sequence of awaited set, delete and clear calls with string
\* keys, size is the number of keys that have an entry.
C16_SizeCountsKeys ==
  ( \A n \in DOMAIN ops :
      /\ IsDone(n) /\ Alone(n)
      /\ ops[n].kind \in {"set", "delete", "clear"}
      /\ ops[n].kind = "set" => ops[n].key \in RealKeys )
  => size = Cardinality(Stored)

\* the last call made that writes key: a set or delete of it, or a clear
Writers(key) ==
  { n \in DOMAIN ops : \/ ops[n].kind = "clear"
                       \/ ops[n].kind \in {"set", "delete"} /\ ops[n].key = key }

LastWriter(key) == CHOOSE n \in Writers(key) : \A m \in Writers(key) : m <= n

\* C17: once all calls have settled, a key whose last set or delete was a
\* delete has no entry, and a key whose last set or delete was a set holds
\* the value of that set, whether or not the calls were awaited one by one.
C17_IssueOrder ==
  (\A n \in DOMAIN ops : IsDone(n)) =>
    \A key \in RealKeys :
      Writers(key) # {} =>
        LET n == LastWriter(key) IN
          /\ ops[n].kind = "delete" => store[KeyPrefix(key)] = NoEntry
          /\ ops[n].kind = "set" =>
               /\ store[KeyPrefix(key)] # NoEntry
               /\ store[KeyPrefix(key)].value = ops[n].val

\* C18: a set with a null or empty key rejects, and when it was awaited the
\* size and the entry under that key are as they were at the call.
C18_SetRejectsBadKey ==
  \A n \in DOMAIN ops :
    (ops[n].kind = "set" /\ ops[n].key \notin RealKeys /\ IsDone(n))
    => /\ ops[n].ret = Failed
       /\ Alone(n) => ops[n].sz1 = ops[n].sz0
       /\ (Alone(n) /\ n = Len(ops)) => store[KeyPrefix(ops[n].key)] = ops[n].e0

\* C19: an awaited delete returns true exactly when the key had an entry at
\* the call; the entry is gone afterwards; size is one lower than at the
\* call when it returns true and as it was when it returns false.
C19_DeleteReportsRemoval ==
  \A n \in DOMAIN ops :
    (ops[n].kind = "delete" /\ IsDone(n) /\ Alone(n))
    => /\ ops[n].ret = Bool(ops[n].e0 # NoEntry)
       /\ ops[n].sz1 = IF ops[n].e0 # NoEntry THEN ops[n].sz0 - 1 ELSE ops[n].sz0
       /\ n = Len(ops) => store[KeyPrefix(ops[n].key)] = NoEntry

C19_Witness ==
  \E n, m \in DOMAIN ops :
    /\ ops[n].kind = "delete" /\ IsDone(n) /\ Alone(n) /\ ops[n].ret = Bool(TRUE)
    /\ ops[m].kind = "delete" /\ IsDone(m) /\ Alone(m) /\ ops[m].ret = Bool(FALSE)

\* the sets of key that had not settled when call c was made, or came later
SetsAround(c, key) ==
  { m \in DOMAIN ops : /\ ops[m].kind = "set" /\ ops[m].key = key
                       /\ (m > c \/ m \in ops[c].pend) }

\* C20: when clear has resolved, size was 0 at that moment, and every key
\* whose sets had all settled before the clear was called has no entry and
\* reads as null in every later get.
C20_ClearEmpties ==
  \A c \in DOMAIN ops :
    (ops[c].kind = "clear" /\ IsDone(c))
    => /\ ops[c].sz1 = 0
       /\ \A key \in HostKeys :
            SetsAround(c, key) = {} =>
              /\ store[KeyPrefix(key)] = NoEntry
              /\ \A g \in DOMAIN ops :
                   (g > c /\ ops[g].kind = "get" /\ ops[g].key = key /\ IsDone(g))
                   => ops[g].ret = Null

C20_Witness ==
  \E s, c, g \in DOMAIN ops :
    /\ s < c /\ c < g
    /\ ops[s].kind = "set" /\ c \notin ops[g].pend /\ s \notin ops[c].pend
    /\ ops[c].kind = "clear" /\ IsDone(c)
    /\ ops[g].kind = "get" /\ ops[g].key = ops[s].key /\ IsDone(g)
    /\ ops[g].ret = Null

(***************************************************************************)
(* The constructor's option check (plugin.js lines 22-45, utils.js)         *)
(***************************************************************************)
\* everything but the call under study
restVars == <<clock, ttl, concurrency, store, size, processed, docs, nodes, inv,
              running, queue, ready, turn, ac, acOpen, ops>>

\* no plugin and no cache at work
InitRest ==
  /\ clock = 0
  /\ ttl = 1
  /\ concurrency = 1
  /\ store = <<>>
  /\ size = 0
  /\ processed = {}
  /\ docs = <<>>
  /\ nodes = <<>>
  /\ inv = <<>>
  /\ running = {}
  /\ queue = <<>>
  /\ ready = <<>>
  /\ turn = "host"
  /\ ac = "none"
  /\ acOpen = {}
  /\ ops = <<>>

\* the defaults of the constructor
DefaultOptions ==
  [outputDir |-> ".image-cache", publicPath |-> "/images",
   formats |-> <<"webp">>, quality |-> 80,
   sizes |-> << [width |-> 640, suffix |-> "sm"],
                [width |-> 1024, suffix |-> "md"],
                [width |-> 1920, suffix |-> "lg"] >>,
   concurrency |-> 4, cacheTimeout |-> 604800000]

\* an options object that gives field f, or does not
Given(f, vals) == { <<>> } \cup { [x \in {f} |-> v] : v \in vals }

\* the options objects handed to the constructor
UserOptions ==
  { Spread(a, Spread(b, Spread(c, Spread(d, Spread(e, Spread(g, h)))))) :
      a \in Given("outputDir", {"", "out"}),
      b \in Given("publicPath", {"", "/custom"}),
      c \in Given("formats", {<<>>, <<"avif", "png">>, <<"webp", "invalid-format">>}),
      d \in Given("quality", {0, 1, 100, 101}),
      e \in Given("sizes", {<<>>, <<[width |-> 800, suffix |-> "test"]>>,
                            <<[width |-> 0, suffix |-> "sm"]>>,
                            <<[width |-> 640, suffix |-> ""]>>}),
      g \in Given("concurrency", {0, 1}),
      h \in Given("cacheTimeout", {-1, 0, 1}) }

validFormats == {"webp", "avif", "jpeg", "png"}

\* validateOptions: the message of the error it throws, or "ok"; every
\* number here is a number, so the typeof tests pass
validateOptions(options) ==
  IF options.outputDir = "" THEN "outputDir is required"
  ELSE IF options.publicPath = "" THEN "publicPath is required"
  ELSE IF options.formats = <<>> THEN "At least one output format is required"
  ELSE IF \E k \in 1..Len(options.formats) : options.formats[k] \notin validFormats
  THEN "Invalid formats"
  ELSE IF options.quality < 1 \/ options.quality > 100
  THEN "Quality must be a number between 1 and 100"
  ELSE IF \E k \in 1..Len(options.sizes) :
            options.sizes[k].width = 0 \/ options.sizes[k].suffix = ""
  THEN "Each size must have width and suffix"
  ELSE IF \E k \in 1..Len(options.sizes) : options.sizes[k].width < 1
  THEN "Size width must be a positive number"
  ELSE IF options.concurrency < 1 THEN "Concurrency must be a positive number"
  ELSE "ok"

\* new ImageOptimizerPlugin(options) is about to be evaluated
InitOptions ==
  /\ InitRest
  /\ \E o \in UserOptions : call = [fn |-> "constructor", options |-> o, out |-> "pending"]

\* the constructor merges the options into the defaults and validates them
Construct ==
  /\ call.fn = "constructor" /\ call.out = "pending"
  /\ call' = [call EXCEPT !.options = Spread(DefaultOptions, call.options),
                          !.out = validateOptions(Spread(DefaultOptions, call.options))]
  /\ UNCHANGED restVars

SpecOptions == InitOptions /\ [][Construct]_vars

\* the constraints of the configuration surface
ViolatesSurface(o) ==
  \/ o.outputDir = "" \/ o.publicPath = ""
  \/ o.formats = <<>>
  \/ \E k \in 1..Len(o.formats) : o.formats[k] \notin {"webp", "avif", "jpeg", "png"}
  \/ o.quality \notin 1..100
  \/ \E k \in 1..Len(o.sizes) : ~(o.sizes[k].width > 0 /\ o.sizes[k].suffix # "")
  \/ o.concurrency < 1
  \/ o.cacheTimeout <= 0

\* C21: the constructor throws exactly when the merged options violate a
\* constraint of the configuration surface.
C21_ConstructorValidates ==
  (call.fn = "constructor" /\ call.out # "pending")
  => (call.out # "ok" <=> ViolatesSurface(call.options))

(***************************************************************************)
(* ImageProcessor.#createVariant on its own                                 *)
(***************************************************************************)
\* source sizes: small ones, and those of the tests
SourceSizes ==
  { [width |-> w, height |-> h] : w \in 1..MaxDim, h \in 1..MaxDim }
  \cup { [width |-> 1000, height |-> 500], [width |-> 500, height |-> 300] }

TargetSizes ==
  { [width |-> t, suffix |-> "sm"] : t \in 1..(MaxDim + 1) }
  \cup { [width |-> 640, suffix |-> "sm"], [width |-> 1024, suffix |-> "md"] }

InitVariant ==
  /\ InitRest
  /\ \E m \in SourceSizes : \E sz \in TargetSizes :
       call = [fn |-> "createVariant", metadata |-> m, size |-> sz, out |-> NoRet]

\* #createVariant(image, metadata, { name, size, format, outputDir })
CreateVariant ==
  /\ call.fn = "createVariant" /\ call.out = NoRet
  /\ call' = [call EXCEPT !.out = createVariant(call.metadata, "a", call.size, "webp")]
  /\ UNCHANGED restVars

SpecVariant == InitVariant /\ [][CreateVariant]_vars

\* C22: a variant made from a source of size (w, h) for target width t has
\* width min(t, w), never more than w, and its height is the integer nearest
\* to h * width / w, the upper one when two are equally near.
C22_VariantDimensions ==
  (call.fn = "createVariant" /\ call.out # NoRet)
  => LET w == call.metadata.width
         h == call.metadata.height
         t == call.size.width
         v == call.out
     IN /\ v.width <= w /\ v.width <= t
        /\ v.width = w \/ v.width = t
        /\ 2 * (v.height * w - h * v.width) <= w
        /\ 2 * (v.height * w - h * v.width) > -w

C22_Witness ==
  /\ call.fn = "createVariant" /\ call.out # NoRet
  /\ call.size.width < call.metadata.width
  /\ (call.metadata.height * call.out.width) % call.metadata.width # 0

(***************************************************************************)
(* Documents with nodes of every kind, one pass at a time                   *)
(***************************************************************************)
\* image nodes with a source that can be generated ("/a", also written
\* "/./a") or not ("/x"), an image node without src, paragraphs with and
\* without a src attribute
FrameChoices(k) ==
  { [type |-> "image", attrs |-> [src |-> s, alt |-> k]] :
      s \in { <<"/", "a">>, <<"/", ".", "a">>, <<"/", "x">> } }
  \cup { [type |-> "image", attrs |-> [alt |-> k]],
         [type |-> "paragraph", attrs |-> [src |-> <<"/", "a">>, alt |-> k]],
         [type |-> "paragraph", attrs |-> [alt |-> k]] }

InitFrame ==
  /\ ttl = MaxTtl
  /\ concurrency \in 1..MaxConcurrency
  /\ \E q \in [1..DocLen -> UNION { FrameChoices(k) : k \in 1..DocLen }] :
       /\ \A k \in 1..DocLen : q[k] \in FrameChoices(k)
       /\ InitDocs([d \in {1} |-> q])

SpecFrame == InitFrame /\ [][Run]_vars

\* C23: no step changes the type or the children of a node, and a step
\* changes the attrs of a node only if that node is of type image and has a
\* non-empty src.
C23_WritesOnlyImageAttrs ==
  [][ /\ docs' = docs
      /\ DOMAIN nodes' = DOMAIN nodes
      /\ \A d \in DOMAIN nodes :
           /\ Len(nodes'[d]) = Len(nodes[d])
           /\ \A k \in 1..Len(nodes[d]) :
                nodes'[d][k] # nodes[d][k]
                => (docs[d][k].type = "image" /\ Truthy(nodes[d][k], "src")) ]_vars

C23_Witness ==
  \E i \in DOMAIN inv : \E k, l \in Positions(i) :
    /\ PassDone(i)
    /\ docs[i][k].type = "paragraph" /\ Truthy(docs[i][k].attrs, "src")
    /\ nodes[i][k] = docs[i][k].attrs
    /\ HasComputed(nodes[i][l]) /\ ~HasComputed(docs[i][l].attrs)

\* C24: the step that ends the cache-hit branch of #processImage (cache.has
\* returned true, cache.get has returned) leaves the node with srcset,
\* sizes, width, height and originalSrc, whatever happened to the entry
\* between the two reads.
C24_HitBranchWritesNode ==
  [][ \A i \in DOMAIN inv :
        (AtHead(i, "getret") /\ inv'[i].pc = "visit")
        => HasComputed(nodes'[i][inv[i].idx]) ]_vars

\* position k of document i held the first image node of the document that
\* resolves to its file when the running or last pass of i began
FirstOfPath(i, k) ==
  /\ isImageNode(SnapNode(i, k))
  /\ \A l \in 1..(k - 1) :
       ~(isImageNode(SnapNode(i, l)) /\ SnapPath(i, l) = SnapPath(i, k))

\* C25: after the first pass over a document, every image node with a
\* relative src that is the first of the document to resolve to its file,
\* a file that can be generated, carries the attributes generated from that
\* file, also when a document of another directory uses the same src string.
C25_DedupByResolvedPath ==
  \A i \in DOMAIN inv :
    (PassDone(i) /\ ~inv[i].again) =>
      \A k \in Positions(i) :
        ( /\ FirstOfPath(i, k)
          /\ Head(inv[i].snap[k].src) # "/"
          /\ ProcessOk(SnapPath(i, k)) )
        => /\ HasComputed(nodes[i][k])
           /\ nodes[i][k].srcset = process(SnapPath(i, k)).srcset
           /\ nodes[i][k].width = process(SnapPath(i, k)).width

\* the nodes of document i that resolve to path p and carry computed attrs
Carrying(i, p) ==
  { k \in Positions(i) : /\ isImageNode(NodeAt(i, k))
                         /\ HasComputed(nodes[i][k])
                         /\ resolvePublicPath(nodes[i][k].originalSrc, Context(i)) = p }

\* C26: no two invocations have both called ImageProcessor.process for the
\* same source that can be generated, and the nodes of two documents that
\* were given attributes for the same source have the same srcset, sizes,
\* width and height.
C26_OneJobAcrossInvocations ==
  \A i, j \in DOMAIN inv : \A p \in DocPaths(i) :
    (i # j /\ ProcessOk(p)) =>
      /\ ~(Count(inv[i].calls, p) >= 1 /\ Count(inv[j].calls, p) >= 1)
      /\ \A k \in Carrying(i, p) : \A l \in Carrying(j, p) :
           \A f \in {"srcset", "sizes", "width", "height"} :
             nodes[i][k][f] = nodes[j][l][f]

\* C27: the step in which a job fails changes neither the store, nor the
\* size, nor the processed set; a src enters the processed set only in the
\* step of a job that has come back from cache.set, with the entry of its
\* key holding the job's attributes; and the src of a node whose source
\* cannot be generated is never in the processed set, nor is there an entry
\* under its key.
C27_FailedJobLeavesNoTrace ==
  /\ [][ \A i \in DOMAIN inv :
           (inv[i].pc = "running" /\ inv'[i].res = Failed)
           => UNCHANGED <<store, size, processed>> ]_vars
  /\ [][ \A s \in processed' \ processed :
           \E i \in DOMAIN inv :
             /\ inv[i].pc = "jobret" /\ inv[i].src = s
             /\ store[CacheKey(inv[i].path)] # NoEntry
             /\ store[CacheKey(inv[i].path)].value = inv[i].res ]_vars
  /\ [](\A i \in DOMAIN inv :
          inv[i].ran => \A k \in BadPositions(i) :
            /\ inv[i].snap[k].src \notin processed
            /\ store[CacheKey(SnapPath(i, k))] = NoEntry)

C27_Witness ==
  \E i \in DOMAIN inv :
    /\ inv[i].pc = "addret" /\ inv[i].res = Failed
    /\ processed # {} /\ size >= 1
    /\ store[CacheKey(inv[i].path)] = NoEntry
    /\ inv[i].src \notin processed

\* C28: Cache.size is never negative, whatever the order in which the steps
\* of the set, get, has, delete and clear calls in flight are taken.
C28_SizeNeverNegative == size >= 0

\* C29: when a pass has resolved, none of its jobs holds a slot of the queue
\* or waits in it; for every call of ImageProcessor.process the pass made,
\* a node of its document carries the attributes computed for that source,
\* or an error naming that source is recorded; and when no other invocation
\* is under way, nothing runs or waits in the queue.
C29_JobsDoneWhenPassResolves ==
  \A i \in DOMAIN inv :
    PassDone(i) =>
      /\ i \notin running
      /\ \A n \in 1..Len(queue) : queue[n] # i
      /\ \A n \in 1..Len(inv[i].calls) :
           LET p == inv[i].calls[n] IN
             IF ProcessOk(p)
             THEN Carrying(i, p) # {}
             ELSE \E m \in 1..Len(inv[i].errs) :
                    resolvePublicPath(inv[i].errs[m].src, Context(i)) = p
      /\ (\A j \in DOMAIN inv : inv[j].pc = "idle")
         => (running = {} /\ queue = <<>>)

C29_Witness ==
  \E i \in DOMAIN inv :
    /\ PassDone(i)
    /\ Len(inv[i].calls) = 2
    /\ Len(inv[i].errs) = 1
    /\ \E n \in 1..2 : Carrying(i, inv[i].calls[n]) # {}
    /\ \A j \in DOMAIN inv : inv[j].pc = "idle"
    /\ running = {} /\ queue = <<>>

====
